---- MODULE Spec2Model ----
(***************************************************************************)
(* A model of the reaction-cleaning pipeline (preprocessing/2_cleaning.py) *)
(* and of the template-extraction scan                                     *)
(* (preprocessing/LocalTemplate/extract_from_train_data.py).               *)
(*                                                                         *)
(* Reaction strings are TLA+ strings; Python's str operations (split,      *)
(* join, in, replace, len) are modelled character by character.  The       *)
(* molecule toolkit (RDKit, rxn.chemutils) is an external library: it is   *)
(* modelled on a subset of SMILES in which a compound is a chain of atoms, *)
(* each atom a bare element symbol (C, N, O) or a bracket atom             *)
(* "[" element ["@"] [":" digits] "]".  A canonical SMILES of a chain is   *)
(* the smaller of its two reading directions.                              *)
(***************************************************************************)
EXTENDS Integers, Sequences, FiniteSets, TLC

VARIABLES
  \* ---- clean_dataset (2_cleaning.py) ----
  df,               \* the table: a sequence of rows [id, rxn_map, canonic_rxn]
  stage,            \* the position of clean_dataset in its sequence of stages
  out,              \* parallel_apply under way: the values the workers have returned, by dataset_id
  applied,          \* history: the functions the workers have applied to each row, by dataset_id
  smarts_strict,    \* the RDKit build: does ReactionFromSmarts raise on a reaction with an empty side
  \* ---- extract_templates (extract_from_train_data.py) ----
  rxns,             \* the input list of reaction strings
  args,             \* the options dict: a sequence of <<key, value>>
  setting,          \* the setting dict build_template_extractor gives the extractor
  i,                \* number of records the loop has finished
  TemplateEdits, TemplateCs, TemplateHs, TemplateSs,   \* dicts keyed by label
  TemplateFreq, templates_A, templates_B,              \* defaultdict(int)
  template_labels,  \* the per-record label list
  pc,               \* "build" | "KeyError" | "loop" | "handler" | "exited" | "KeyboardInterrupt"
                    \* | "done" | "saved" | "ValueError"
  template_infos,   \* the registry table returned at the end
  \* ---- single-function harness ----
  fn_in, fn_out, fn_name

vars == <<df, stage, out, applied, smarts_strict, rxns, args, setting, i, TemplateEdits, TemplateCs, TemplateHs,
          TemplateSs, TemplateFreq, templates_A, templates_B, template_labels,
          pc, template_infos, fn_in, fn_out, fn_name>>

cleanVars == <<df, stage, out, applied, smarts_strict>>
extractVars == <<rxns, args, setting, i, TemplateEdits, TemplateCs, TemplateHs,
          TemplateSs, TemplateFreq, templates_A, templates_B, template_labels,
          pc, template_infos>>
fnVars == <<fn_in, fn_out, fn_name>>

-----------------------------------------------------------------------------
(* Python str operations *)

\* s[k] for a 1-based k
CharAt(s, k) == SubSeq(s, k, k)

Indices(s) == [k \in 1..Len(s) |-> k]

\* the characters the model's strings are written in, in ASCII order
MaxCanonicLen == 512

HeadCap == 1000

MinHeavyAtoms == 5

MaxReactantCount == 4

AsciiChars == " *.0123456789:>@CENO[]_abcdefghijklmnopqrstuvwxyz~"

Ord(c) == CHOOSE k \in 1..Len(AsciiChars) : CharAt(AsciiChars, k) = c

\* Python's s < t on str: lexicographic by code point
StrLess(s, t) ==
  LET m == IF Len(s) < Len(t) THEN Len(s) ELSE Len(t)
      diff == SelectSeq([k \in 1..m |-> k], LAMBDA k : CharAt(s, k) # CharAt(t, k))
  IN IF diff = <<>> THEN Len(s) < Len(t)
     ELSE Ord(CharAt(s, diff[1])) < Ord(CharAt(t, diff[1]))

\* sub in s
Contains(s, sub) ==
  \E k \in 1..(Len(s) - Len(sub) + 1) : SubSeq(s, k, k + Len(sub) - 1) = sub

\* s.count(sub) for a one-character sub
CountChar(s, c) == Len(SelectSeq(Indices(s), LAMBDA k : CharAt(s, k) = c))

\* the left-to-right non-overlapping occurrences of sep among the candidate
\* start positions cand (ascending), none starting before from
RECURSIVE Greedy(_, _, _)
Greedy(cand, from, w) ==
  IF cand = <<>> THEN <<>>
  ELSE IF Head(cand) < from THEN Greedy(Tail(cand), from, w)
  ELSE <<Head(cand)>> \o Greedy(Tail(cand), Head(cand) + w, w)

Occurrences(s, sep) ==
  LET w == Len(sep)
      cand == SelectSeq(Indices(s),
                LAMBDA k : k + w - 1 <= Len(s) /\ SubSeq(s, k, k + w - 1) = sep)
  IN Greedy(cand, 1, w)

\* s.split(sep): a sequence of strings, never empty ("".split(".") is [""])
Split(s, sep) ==
  LET occ == Occurrences(s, sep)
      w == Len(sep)
      n == Len(occ)
  IN [k \in 1..(n + 1) |->
        SubSeq(s, IF k = 1 THEN 1 ELSE occ[k - 1] + w,
                  IF k = n + 1 THEN Len(s) ELSE occ[k] - 1)]

\* sep.join(parts)
RECURSIVE Join(_, _)
Join(parts, sep) ==
  IF parts = <<>> THEN ""
  ELSE IF Len(parts) = 1 THEN parts[1]
  ELSE parts[1] \o sep \o Join(Tail(parts), sep)

\* s.replace(old, new), old non-empty
Replace(s, old, new) == Join(Split(s, old), new)

\* the concatenation of strs[lo..hi], by halves
RECURSIVE ConcatRange(_, _, _)
ConcatRange(strs, lo, hi) ==
  IF lo > hi THEN ""
  ELSE IF lo = hi THEN strs[lo]
  ELSE LET mid == (lo + hi) \div 2
       IN ConcatRange(strs, lo, mid) \o ConcatRange(strs, mid + 1, hi)

Concat(strs) == ConcatRange(strs, 1, Len(strs))

\* c * n
Repeat(c, n) == Concat([k \in 1..n |-> c])

\* x in list
InList(x, list) == \E k \in 1..Len(list) : list[k] = x

-----------------------------------------------------------------------------
(* The molecule toolkit (rdkit.Chem), on the SMILES subset of this model *)

Elements == {"C", "N", "O"}
Digits == {"0", "1", "2", "3", "4", "5", "6", "7", "8", "9"}

AllIn(s, set) == \A k \in 1..Len(s) : CharAt(s, k) \in set

\* the inside of a bracket atom: element ["@"] [":" digits]
BracketOk(c) ==
  /\ Len(c) >= 1
  /\ CharAt(c, 1) \in Elements
  /\ LET r1 == SubSeq(c, 2, Len(c))
         r2 == IF Len(r1) >= 1 /\ CharAt(r1, 1) = "@" THEN SubSeq(r1, 2, Len(r1)) ELSE r1
     IN \/ r2 = ""
        \/ /\ Len(r2) >= 2
           /\ CharAt(r2, 1) = ":"
           /\ AllIn(SubSeq(r2, 2, Len(r2)), Digits)

BracketAtom(c) ==
  LET r1 == SubSeq(c, 2, Len(c))
      chi == Len(r1) >= 1 /\ CharAt(r1, 1) = "@"
      r2 == IF chi THEN SubSeq(r1, 2, Len(r1)) ELSE r1
  IN [el |-> CharAt(c, 1), chi |-> chi,
      map |-> IF r2 = "" THEN "" ELSE SubSeq(r2, 2, Len(r2))]

\* Chem.MolFromSmiles(smiles): [ok |-> FALSE] stands for None; the empty string
\* parses to a molecule without atoms
MolFromSmiles(smiles) ==
  LET opens == SelectSeq(Indices(smiles), LAMBDA k : CharAt(smiles, k) = "[")
      closes == SelectSeq(Indices(smiles), LAMBDA k : CharAt(smiles, k) = "]")
      n == Len(opens)
      paired == /\ Len(closes) = n
                /\ \A k \in 1..n : opens[k] < closes[k]
                /\ \A k \in 1..(n - 1) : closes[k] < opens[k + 1]
      InBracket(p) == \E k \in 1..n : opens[k] <= p /\ p <= closes[k]
      Inside(k) == SubSeq(smiles, opens[k] + 1, closes[k] - 1)
      starts == SelectSeq(Indices(smiles),
                  LAMBDA p : CharAt(smiles, p) = "[" \/ ~InBracket(p))
      CloseOf(p) == closes[CHOOSE k \in 1..n : opens[k] = p]
      AtomAt(p) == IF CharAt(smiles, p) = "["
                     THEN BracketAtom(SubSeq(smiles, p + 1, CloseOf(p) - 1))
                     ELSE [el |-> CharAt(smiles, p), chi |-> FALSE, map |-> ""]
      ok == /\ paired
            /\ \A k \in 1..n : BracketOk(Inside(k))
            /\ \A p \in 1..Len(smiles) : InBracket(p) \/ CharAt(smiles, p) \in Elements
  IN IF ok THEN [ok |-> TRUE, atoms |-> [k \in 1..Len(starts) |-> AtomAt(starts[k])]]
     ELSE [ok |-> FALSE, atoms |-> <<>>]

AtomSmiles(a) ==
  IF ~a.chi /\ a.map = "" THEN a.el
  ELSE "[" \o a.el \o (IF a.chi THEN "@" ELSE "")
           \o (IF a.map = "" THEN "" ELSE ":" \o a.map) \o "]"

WriteAtoms(atoms) == Concat([k \in 1..Len(atoms) |-> AtomSmiles(atoms[k])])

Reverse(seq) == [k \in 1..Len(seq) |-> seq[Len(seq) + 1 - k]]

\* Chem.MolToSmiles(mol): the canonical SMILES, one string per molecule whatever
\* the direction it was written in
MolToSmiles(atoms) ==
  LET fwd == WriteAtoms(atoms)
      bwd == WriteAtoms(Reverse(atoms))
  IN IF StrLess(bwd, fwd) THEN bwd ELSE fwd

\* rdMolDescriptors.CalcNumHeavyAtoms(mol); every element of the subset is heavy
CalcNumHeavyAtoms(atoms) == Len(atoms)

\* mol.HasSubstructMatch(Chem.MolFromSmarts("[#6]"))
HasCarbon(atoms) == \E k \in 1..Len(atoms) : atoms[k].el = "C"

\* Chem.RemoveStereochemistry(mol)
RemoveStereochemistry(atoms) == [k \in 1..Len(atoms) |-> [atoms[k] EXCEPT !.chi = FALSE]]

\* re.findall('\:([0-9]+)\]', s) as a set: the digit runs between a ":" and a "]"
FindMaps(s) ==
  LET colons == SelectSeq(Indices(s), LAMBDA k : CharAt(s, k) = ":")
      closes == SelectSeq(Indices(s), LAMBDA k : CharAt(s, k) = "]")
      NextClose(c) == LET after == SelectSeq(closes, LAMBDA k : k > c)
                      IN IF after = <<>> THEN 0 ELSE after[1]
      Hit(c) == /\ NextClose(c) > c + 1
                /\ AllIn(SubSeq(s, c + 1, NextClose(c) - 1), Digits)
  IN {SubSeq(s, colons[k] + 1, NextClose(colons[k]) - 1) :
        k \in {j \in 1..Len(colons) : Hit(colons[j])}}

-----------------------------------------------------------------------------
(* rxn.chemutils: reaction strings "reactants>agents>products" *)

\* the compounds of one role of a reaction SMILES (an empty role has none)
RoleCompounds(role) == SelectSeq(Split(role, "."), LAMBDA c : c # "")

\* insertion of x in a sorted list of strings
RECURSIVE InsertSorted(_, _)
InsertSorted(x, list) ==
  IF list = <<>> THEN <<x>>
  ELSE IF StrLess(x, Head(list)) THEN <<x>> \o list
  ELSE <<Head(list)>> \o InsertSorted(x, Tail(list))

\* sorted(list)
RECURSIVE Sorted(_)
Sorted(list) ==
  IF list = <<>> THEN <<>> ELSE InsertSorted(Head(list), Sorted(Tail(list)))

ClearMaps(atoms) == [k \in 1..Len(atoms) |-> [atoms[k] EXCEPT !.map = ""]]

\* cleanup_smiles, which cleanup_compounds applies to each compound (line 207):
\* the compound read and written again, in the order it was written in
cleanup_smiles(smiles) == WriteAtoms(MolFromSmiles(smiles).atoms)

\* a compound as parse_extended_reaction_smiles hands it on, without its atom
\* maps when remove_atom_maps is set
ParsedCompound(c, remove_atom_maps) ==
  LET atoms == MolFromSmiles(c).atoms
  IN WriteAtoms(IF remove_atom_maps THEN ClearMaps(atoms) ELSE atoms)

\* cleanup_compounds on one compound, where the function calls it
CleanedCompound(c, cleanup) == IF cleanup THEN cleanup_smiles(c) ELSE c

\* canonicalize_compounds on one compound
CanonicalCompound(c) == MolToSmiles(MolFromSmiles(c).atoms)

\* parse_extended_reaction_smiles, cleanup_compounds (when cleanup is set),
\* canonicalize_compounds, sort_compounds and to_reaction_smiles in a row;
\* [ok |-> FALSE] when one of them raises
StandardReaction(rxn_map, remove_atom_maps, cleanup) ==
  LET roles == Split(rxn_map, ">")
      Role(r) == LET cs == RoleCompounds(r)
                 IN Join(Sorted([k \in 1..Len(cs) |->
                      CanonicalCompound(CleanedCompound(ParsedCompound(cs[k], remove_atom_maps),
                                                        cleanup))]), ".")
      ok == /\ Len(roles) = 3
            /\ \A r \in 1..3 : \A k \in 1..Len(RoleCompounds(roles[r])) :
                  MolFromSmiles(RoleCompounds(roles[r])[k]).ok
  IN IF ok THEN [ok |-> TRUE, smiles |-> Join([r \in 1..3 |-> Role(roles[r])], ">")]
     ELSE [ok |-> FALSE, smiles |-> ""]

\* ReactionFromSmarts(rxn) raises (lines 192, 213): every compound written by
\* to_reaction_smiles is a pattern RDKit reads, so only a reaction without
\* reactants or without products can be refused, and whether it is depends on
\* the RDKit build; the reaction "reactants>agents>products" has an empty first
\* or last role when it begins or ends with the separator
ReactionFromSmartsRaises(rxn) ==
  smarts_strict /\ (CharAt(rxn, 1) = ">" \/ CharAt(rxn, Len(rxn)) = ">")

-----------------------------------------------------------------------------
(* 2_cleaning.py: the row functions.  Each F(s) is the value returned and   *)
(* FRaises(s) tells whether the call raises instead.                        *)

ErrTooManyReactants == "Error: too many reactants"
ErrInvalidProduct == "Error: invalid product"
ErrTooManyProducts == "Error: too many products"
ErrProductSmiles == "Error: product smiles error"
ErrNoOrganic == "Error: no organic product"
ErrProductInReactants == "Error: product in reactants"
ErrCanonicalisation == "Error: during canonicalisation"
ErrMapping == "Error: mapping"
ErrSmarts == "Error: smarts"

\* one compound of untangle_tildes: fragment on the "~" bonds, or, when the
\* compound does not parse, replace "~" by "."
untangle_mol(mol) ==
  IF ~Contains(mol, "~") THEN mol
  ELSE LET frags == Split(mol, "~")
           parses == \A k \in 1..Len(frags) :
                        MolFromSmiles(frags[k]).ok /\ frags[k] # ""
       IN IF parses
            THEN Join([k \in 1..Len(frags) |-> MolToSmiles(MolFromSmiles(frags[k]).atoms)], ".")
            ELSE Replace(mol, "~", ".")

untangle_tildesRaises(rxn_map) == Len(Split(rxn_map, ">")) < 3

untangle_tildes(rxn_map) ==
  LET rxn == Split(rxn_map, ">")
      Side(side) == LET mols == Split(side, ".")
                    IN Join([k \in 1..Len(mols) |-> untangle_mol(mols[k])], ".")
  IN Side(rxn[1]) \o ">" \o Side(rxn[2]) \o ">" \o Side(rxn[3])

join_reactants_reagentsRaises(rxn_map) ==
  ~Contains(rxn_map, ">>") /\ Len(Split(rxn_map, ">")) < 3

join_reactants_reagents(rxn_map) ==
  IF Contains(rxn_map, ">>") THEN rxn_map
  ELSE LET rxn == Split(rxn_map, ">")
       IN rxn[1] \o "." \o rxn[2] \o ">>" \o rxn[3]

remove_fragment_info(rxn_map) == Split(rxn_map, " ")[1]

\* rxn_map.split(">>")[1] raises IndexError
NoProductSegment(rxn_map) == Len(Split(rxn_map, ">>")) < 2

remove_reagentsRaises(rxn_map) == NoProductSegment(rxn_map)

\* the loop over mol.GetAtoms(): the maps absent from the product are cleared
ClearUnusedMaps(atoms, product_maps) ==
  [k \in 1..Len(atoms) |->
     IF atoms[k].map # "" /\ atoms[k].map \notin product_maps
       THEN [atoms[k] EXCEPT !.map = ""] ELSE atoms[k]]

\* used = True for a mapped atom whose map is any map (not only a product's)
UsedMutant(atoms, product_maps) == \E k \in 1..Len(atoms) : atoms[k].map # ""

Used(atoms, product_maps) ==
  \E k \in 1..Len(atoms) : atoms[k].map # "" /\ atoms[k].map \in product_maps

remove_reagents(rxn_map) ==
  LET reactants == Split(Split(rxn_map, ">>")[1], ".")
      product == Split(rxn_map, ">>")[2]
      product_maps == FindMaps(product)
      Keep(smiles) == LET mol == MolFromSmiles(smiles)
                      IN mol.ok /\ Used(mol.atoms, product_maps)
      kept == SelectSeq(reactants, Keep)
      new_reactants == [k \in 1..Len(kept) |->
                          MolToSmiles(ClearUnusedMaps(MolFromSmiles(kept[k]).atoms, product_maps))]
  IN Join(new_reactants, ".") \o ">>" \o product

CountOk(count) == count < MaxReactantCount + 1 /\ count >= 1

reactant_count_filter(rxn_map) ==
  LET reactants == Split(Split(rxn_map, ">>")[1], ".")
      count == Len(reactants)
  IN IF CountOk(count) THEN rxn_map ELSE ErrTooManyReactants

multiproduct_fixerRaises(rxn_map) == NoProductSegment(rxn_map)

BigEnough(atoms) == atoms > MinHeavyAtoms

multiproduct_fixer(rxn_map) ==
  LET products == Split(Split(rxn_map, ">>")[2], ".")
      prod_mols == [k \in 1..Len(products) |-> MolFromSmiles(products[k])]
      new_prods == SelectSeq(products,
                     LAMBDA prod : BigEnough(CalcNumHeavyAtoms(MolFromSmiles(prod).atoms)))
  IN IF Len(products) > 1
       THEN IF \E k \in 1..Len(prod_mols) : ~prod_mols[k].ok THEN ErrInvalidProduct
            ELSE IF Len(new_prods) = 1
                   THEN Split(rxn_map, ">>")[1] \o ">>" \o new_prods[1]
                   ELSE ErrTooManyProducts
       ELSE IF prod_mols[1].ok THEN rxn_map ELSE ErrProductSmiles

no_carbonRaises(rxn_map) ==
  NoProductSegment(rxn_map) \/ ~MolFromSmiles(Split(rxn_map, ">>")[2]).ok

no_carbon(rxn_map) ==
  LET prod == Split(rxn_map, ">>")[2]
  IN IF HasCarbon(MolFromSmiles(prod).atoms) THEN rxn_map ELSE ErrNoOrganic

\* stereo markers on every product regardless of the reactants
SpuriousMutant(r, p) == Contains(p, "@")

\* "@" in p and "@" not in r (lines 151-152)
Spurious(r, p) == Contains(p, "@") /\ ~Contains(r, "@")

remove_stereoalchemyRaises(rxn) ==
  \/ NoProductSegment(rxn)
  \/ LET r == Split(rxn, ">>")[1]
         p == Split(rxn, ">>")[2]
     IN Spurious(r, p) /\ ~MolFromSmiles(p).ok

remove_stereoalchemy(rxn) ==
  LET r == Split(rxn, ">>")[1]
      p == Split(rxn, ">>")[2]
  IN IF Spurious(r, p)
       THEN Replace(rxn, p, MolToSmiles(RemoveStereochemistry(MolFromSmiles(p).atoms)))
       ELSE rxn

product_in_reactantsRaises(rxn_map) == NoProductSegment(rxn_map)

product_in_reactants(rxn_map) ==
  LET product == Split(rxn_map, ">>")[2]
      reactants == Split(Split(rxn_map, ">>")[1], ".")
  IN IF InList(product, reactants) THEN ErrProductInReactants ELSE rxn_map

\* the two try blocks of canonicalise (lines 181-197) and of remove_mapping
\* (lines 201-218) on the outcome of the outer one: the sentinel of the outer
\* handler, "Error: smarts" of the inner one, or the reaction written
Validated(std, sentinel) ==
  IF ~std.ok THEN sentinel
  ELSE IF ReactionFromSmartsRaises(std.smiles) THEN ErrSmarts
  ELSE std.smiles

canonicalise(rxn_map) ==
  Validated(StandardReaction(rxn_map, FALSE, FALSE), ErrCanonicalisation)

remove_mapping(rxn_map) ==
  Validated(StandardReaction(rxn_map, TRUE, TRUE), ErrMapping)

\* len(rxn) > 513
size_filterMutant(rxn) == Len(rxn) > MaxCanonicLen + 1

size_filter(rxn) == Len(rxn) > MaxCanonicLen

-----------------------------------------------------------------------------
(* pandas: the table operations clean_dataset uses *)

\* df.head(n)
HeadRows(table, n) == SubSeq(table, 1, IF Len(table) < n THEN Len(table) ELSE n)

\* the row function clean_dataset hands to parallel_apply, by name
RowFn(name, s) ==
  CASE name = "untangle_tildes" -> untangle_tildes(s)
    [] name = "join_reactants_reagents" -> join_reactants_reagents(s)
    [] name = "remove_fragment_info" -> remove_fragment_info(s)
    [] name = "remove_reagents" -> remove_reagents(s)
    [] name = "reactant_count_filter" -> reactant_count_filter(s)
    [] name = "multiproduct_fixer" -> multiproduct_fixer(s)
    [] name = "no_carbon" -> no_carbon(s)
    [] name = "remove_stereoalchemy" -> remove_stereoalchemy(s)
    [] name = "product_in_reactants" -> product_in_reactants(s)
    [] name = "canonicalise" -> canonicalise(s)

\* whether the row function raises on s (the ones not named raise on no input)
RowFnRaises(name, s) ==
  CASE name = "untangle_tildes" -> untangle_tildesRaises(s)
    [] name = "join_reactants_reagents" -> join_reactants_reagentsRaises(s)
    [] name = "remove_reagents" -> remove_reagentsRaises(s)
    [] name = "multiproduct_fixer" -> multiproduct_fixerRaises(s)
    [] name = "no_carbon" -> no_carbonRaises(s)
    [] name = "remove_stereoalchemy" -> remove_stereoalchemyRaises(s)
    [] name = "product_in_reactants" -> product_in_reactantsRaises(s)
    [] OTHER -> FALSE

\* df["rxn_map"] = df["rxn_map"].parallel_apply(f): every row's value, then
\* the barrier
ApplyTo(table, name) ==
  [k \in 1..Len(table) |-> [table[k] EXCEPT !.rxn_map = RowFn(name, @)]]

AnyRaises(table, name) == \E k \in 1..Len(table) : RowFnRaises(name, table[k].rxn_map)

\* df.drop_duplicates(col): the first row of every value of the column is kept
DropDuplicates(table, col) ==
  LET keep == SelectSeq([k \in 1..Len(table) |-> k],
                LAMBDA k : \A j \in 1..(k - 1) : table[j][col] # table[k][col])
  IN [k \in 1..Len(keep) |-> table[keep[k]]]

\* df[~df[col].str.contains("Error")]
DropErrors(table, col) == SelectSeq(table, LAMBDA row : ~Contains(row[col], "Error"))

-----------------------------------------------------------------------------
(* clean_dataset: one action per stage, in program order.  A row function   *)
(* that raises ends the run (stage "crashed").                              *)

Dedup(table) == DropDuplicates(table, "rxn_map")
DropErr(table) == DropErrors(table, "rxn_map")
DropErrDedup(table) == Dedup(DropErr(table))

\* the statements that follow the parallel_apply of a stage
Tidy(table, after) ==
  CASE after = "dedup" -> Dedup(table)
    [] after = "drop_err" -> DropErr(table)
    [] after = "drop_err_dedup" -> DropErrDedup(table)

\* a stage df["rxn_map"] = parallel_apply(name) followed by its filters
StageStep(next, name, after) ==
  /\ IF AnyRaises(df, name)
       THEN /\ stage' = "crashed"
            /\ df' = df
       ELSE /\ stage' = next
            /\ df' = Tidy(ApplyTo(df, name), after)
  /\ UNCHANGED <<out, applied, smarts_strict, extractVars, fnVars>>

SegmentCountFilter ==
  /\ stage = "segment_count"
  /\ stage' = "untangle_tildes"
  /\ df' = Dedup(SelectSeq(HeadRows(df, HeadCap), LAMBDA row : CountChar(row.rxn_map, ">") = 2))
  /\ UNCHANGED <<out, applied, smarts_strict, extractVars, fnVars>>

UntangleTildes ==
  /\ stage = "untangle_tildes"
  /\ StageStep("join_reactants_reagents", "untangle_tildes", "dedup")

JoinReactantsReagents ==
  /\ stage = "join_reactants_reagents"
  /\ StageStep("remove_fragment_info", "join_reactants_reagents", "dedup")

RemoveFragmentInfo ==
  /\ stage = "remove_fragment_info"
  /\ StageStep("remove_reagents", "remove_fragment_info", "dedup")

RemoveReagents ==
  /\ stage = "remove_reagents"
  /\ StageStep("reactant_count_filter", "remove_reagents", "dedup")

ReactantCountFilter ==
  /\ stage = "reactant_count_filter"
  /\ StageStep("multiproduct_fixer", "reactant_count_filter", "drop_err")

MultiproductFixer ==
  /\ stage = "multiproduct_fixer"
  /\ StageStep("no_carbon", "multiproduct_fixer", "drop_err")

NoCarbon ==
  /\ stage = "no_carbon"
  /\ StageStep("remove_stereoalchemy", "no_carbon", "drop_err_dedup")

RemoveStereoalchemy ==
  /\ stage = "remove_stereoalchemy"
  /\ StageStep("product_in_reactants", "remove_stereoalchemy", "dedup")

ProductInReactants ==
  /\ stage = "product_in_reactants"
  /\ StageStep("canonicalise", "product_in_reactants", "drop_err_dedup")

Canonicalise ==
  /\ stage = "canonicalise"
  /\ StageStep("remove_mapping", "canonicalise", "drop_err")

RemoveMapping ==
  /\ stage = "remove_mapping"
  /\ stage' = "size_filter"
  /\ df' = DropErrors([k \in 1..Len(df) |->
                         [dataset_id |-> df[k].dataset_id, rxn_map |-> df[k].rxn_map,
                          canonic_rxn |-> remove_mapping(df[k].rxn_map)]], "canonic_rxn")
  /\ UNCHANGED <<out, applied, smarts_strict, extractVars, fnVars>>

SizeFilter ==
  /\ stage = "size_filter"
  /\ stage' = "drop_duplicates"
  /\ df' = SelectSeq(df, LAMBDA row : ~size_filter(row.canonic_rxn))
  /\ UNCHANGED <<out, applied, smarts_strict, extractVars, fnVars>>

FinalDropDuplicates ==
  /\ stage = "drop_duplicates"
  /\ stage' = "to_csv"
  /\ df' = DropDuplicates(df, "canonic_rxn")
  /\ UNCHANGED <<out, applied, smarts_strict, extractVars, fnVars>>

ToCsv ==
  /\ stage = "to_csv"
  /\ stage' = "saved"
  /\ UNCHANGED <<df, out, applied, smarts_strict, extractVars, fnVars>>

CleanNext ==
  \/ SegmentCountFilter
  \/ UntangleTildes
  \/ JoinReactantsReagents
  \/ RemoveFragmentInfo
  \/ RemoveReagents
  \/ ReactantCountFilter
  \/ MultiproductFixer
  \/ NoCarbon
  \/ RemoveStereoalchemy
  \/ ProductInReactants
  \/ Canonicalise
  \/ RemoveMapping
  \/ SizeFilter
  \/ FinalDropDuplicates
  \/ ToCsv

-----------------------------------------------------------------------------
(* The raw tables clean_dataset is run on *)

MaxRows == 2

\* a product of k carbons after a mapped one
LongProduct(k) == "[C:1]" \o Repeat("C", k)

RawInputs == {
  "[C:1]O>[N:2].O>[C:1][N:2]",                 \* a reagent segment; O is unused
  "[C:1]O.[N:2]>>[C:1][N:2] |f:0.1|",          \* trailing fragment info
  "[C:1]~O.[N:2]>>[C:1][N:2]",                 \* a coordinate bond
  "O>N>[C:1]C",                                \* no reactant reaches the product
  "[C:1].[C:2].[C:3].[C:4]>>[C:1][C:2][C:3][C:4]",            \* 4 reactants
  "[C:1].[C:2].[C:3].[C:4].[C:5]>>[C:1][C:2][C:3][C:4][C:5]", \* 5 reactants
  "[C:1]CCCCO.[N:2]O>>[C:1]CCCCC.[N:2]",       \* a small by-product
  "[C:1]CCCCO.[N:2]O>>[C:1]CCCCC.[N:2]CCCCC",  \* two large products
  "[C:1]O>>[C:1",                              \* the product does not parse
  "[N:1]O>>[N:1]",                             \* no carbon in the product
  "[C:1]O>>[C@:1]N",                           \* stereo in the product only
  "[C:1][O:2]>>[C:1][O:2]",                    \* the product is a reactant
  "[C:1][O:2]>>[C:2][O:1]",                    \* the same up to the mapping
  "[C:1]>[C:1]",                               \* one separator only
  "[C:1] O>>[C:1]",                            \* white space in the reactants
  "[C:1]O>>[C:1]Error",                        \* "Error" inside a product that does not parse
  "[C:1]N>>" \o LongProduct(MaxCanonicLen - 5),  \* canonic_rxn of 512 characters
  "[C:1]N>>" \o LongProduct(MaxCanonicLen - 4)   \* canonic_rxn of 513 characters
}

RawTables ==
  UNION { { [k \in 1..n |-> [dataset_id |-> k, rxn_map |-> t[k]]] : t \in [1..n -> RawInputs] }
          : n \in 1..MaxRows }

ExtractIdle ==
  /\ rxns = <<>> /\ args = <<>> /\ setting = <<>> /\ i = 0
  /\ TemplateEdits = <<>> /\ TemplateCs = <<>> /\ TemplateHs = <<>> /\ TemplateSs = <<>>
  /\ TemplateFreq = <<>> /\ templates_A = <<>> /\ templates_B = <<>>
  /\ template_labels = <<>> /\ pc = "idle" /\ template_infos = <<>>

FnIdle == fn_in = "" /\ fn_out = <<>> /\ fn_name = "idle"

CleanIdle ==
  df = <<>> /\ stage = "idle" /\ out = <<>> /\ applied = <<>> /\ smarts_strict = FALSE

CleanInit ==
  /\ df \in RawTables
  /\ stage = "segment_count"
  /\ out = <<>>
  /\ applied = <<>>
  /\ smarts_strict \in BOOLEAN
  /\ ExtractIdle
  /\ FnIdle

SpecClean == CleanInit /\ [][CleanNext]_vars

-----------------------------------------------------------------------------
(* clean_dataset under the worker pool: parallel_apply hands the rows to    *)
(* the workers, which return their values in any order, and returns to      *)
(* clean_dataset when every row has its value                               *)

\* the statements of clean_dataset, in program order
StageOrder ==
  <<"segment_count", "untangle_tildes", "join_reactants_reagents",
    "remove_fragment_info", "remove_reagents", "reactant_count_filter",
    "multiproduct_fixer", "no_carbon", "remove_stereoalchemy",
    "product_in_reactants", "canonicalise", "remove_mapping", "size_filter",
    "drop_duplicates", "to_csv", "saved">>

StageIndex(s) == CHOOSE n \in 1..Len(StageOrder) : StageOrder[n] = s

NextStage(s) == StageOrder[StageIndex(s) + 1]

\* the stages that call parallel_apply
ParallelStages ==
  {StageOrder[n] : n \in StageIndex("untangle_tildes")..StageIndex("size_filter")}

\* the filters that follow the parallel_apply of a stage on rxn_map
AfterOf(s) ==
  CASE s \in {"reactant_count_filter", "multiproduct_fixer", "canonicalise"} -> "drop_err"
    [] s \in {"no_carbon", "product_in_reactants"} -> "drop_err_dedup"
    [] OTHER -> "dedup"

\* the function of the stage on one row, and whether it raises
WorkerValue(s, row) ==
  CASE s = "remove_mapping" -> remove_mapping(row.rxn_map)
    [] s = "size_filter" -> size_filter(row.canonic_rxn)
    [] OTHER -> RowFn(s, row.rxn_map)

WorkerRaises(s, row) ==
  s \notin {"remove_mapping", "size_filter"} /\ RowFnRaises(s, row.rxn_map)

\* a worker applies the function of the stage to one row it was handed
WorkerApply ==
  /\ stage \in ParallelStages
  /\ \E k \in 1..Len(df) :
       LET id == df[k].dataset_id
       IN /\ id \notin DOMAIN out
          /\ IF WorkerRaises(stage, df[k])
               THEN /\ stage' = "crashed"
                    /\ UNCHANGED <<out, applied>>
               ELSE /\ out' = out @@ (id :> WorkerValue(stage, df[k]))
                    /\ applied' = [applied EXCEPT ![id] = Append(@, stage)]
                    /\ stage' = stage
  /\ UNCHANGED <<df, smarts_strict, extractVars, fnVars>>

\* parallel_apply returns when every row has its value
AllDoneMutant(table, values) ==
  \E k \in 1..Len(table) : table[k].dataset_id \in DOMAIN values

AllDone(table, values) ==
  \A k \in 1..Len(table) : table[k].dataset_id \in DOMAIN values

\* the value parallel_apply returns for a row
Returned(row, old) ==
  IF row.dataset_id \in DOMAIN out THEN out[row.dataset_id] ELSE old

\* parallel_apply returns and clean_dataset runs the rest of the stage: the
\* assignment of the column and the filters after it
Gather ==
  /\ stage \in ParallelStages
  /\ AllDone(df, out)
  /\ df' =
       CASE stage = "remove_mapping" ->
              DropErrors([k \in 1..Len(df) |->
                            [dataset_id |-> df[k].dataset_id, rxn_map |-> df[k].rxn_map,
                             canonic_rxn |-> Returned(df[k], "")]], "canonic_rxn")
         [] stage = "size_filter" ->
              SelectSeq(df, LAMBDA row : ~Returned(row, FALSE))
         [] OTHER ->
              Tidy([k \in 1..Len(df) |->
                      [df[k] EXCEPT !.rxn_map = Returned(df[k], @)]], AfterOf(stage))
  /\ stage' = NextStage(stage)
  /\ out' = <<>>
  /\ UNCHANGED <<applied, smarts_strict, extractVars, fnVars>>

WorkersNext ==
  \/ SegmentCountFilter
  \/ WorkerApply
  \/ Gather
  \/ FinalDropDuplicates
  \/ ToCsv

WorkerInputs == {
  "[C:1]O.[N:2]>>[C:1][N:2]",
  "[C:1]O>[N:2].O>[C:1][N:2]",
  "[N:1]O>>[N:1]",
  "[C:1]O>>[C@:1]N",
  "[C:1]>[C:1]",
  "[C:1]O>>[C:1",
  "[C:1] O>>[C:1]"
}

WorkerTables ==
  UNION { { [k \in 1..n |-> [dataset_id |-> k, rxn_map |-> t[k]]] : t \in [1..n -> WorkerInputs] }
          : n \in 1..MaxRows }

WorkersInit ==
  /\ df \in WorkerTables
  /\ stage = "segment_count"
  /\ out = <<>>
  /\ applied = [k \in 1..Len(df) |-> <<>>]
  /\ smarts_strict \in BOOLEAN
  /\ ExtractIdle
  /\ FnIdle

SpecWorkers == WorkersInit /\ [][WorkersNext]_vars

-----------------------------------------------------------------------------
(* Python dict and defaultdict(int), as the sequence of <<key, value>> in   *)
(* insertion order                                                          *)

Keys(d) == [k \in 1..Len(d) |-> d[k][1]]
Has(d, key) == \E k \in 1..Len(d) : d[k][1] = key
Get(d, key) == d[CHOOSE k \in 1..Len(d) : d[k][1] = key][2]
Put(d, key, val) ==
  IF Has(d, key) THEN [k \in 1..Len(d) |-> IF d[k][1] = key THEN <<key, val>> ELSE d[k]]
  ELSE Append(d, <<key, val>>)
\* d[key] = 1
IncrementMutant(d, key) == Put(d, key, 1)

\* d[key] += 1 on a defaultdict(int)
Increment(d, key) == Put(d, key, (IF Has(d, key) THEN Get(d, key) ELSE 0) + 1)

-----------------------------------------------------------------------------
(* LocalTemplate/extract_from_train_data.py *)

NaN == "NaN"

\* Python values that are not strings: None, a list, a raised exception
None == [type |-> "NoneType"]
List(items) == [type |-> "list", items |-> items]
Raised == [type |-> "Exception"]

\* the code string of one change map: ''.join(str(change[k+1]) for k in range(len(change)))
CodeRaises(change) == \E k \in 1..Cardinality(DOMAIN change) : k \notin DOMAIN change
Code(change) == Concat([k \in 1..Cardinality(DOMAIN change) |-> ToString(change[k])])

get_full_templateRaises(template, H_change, Charge_change, Chiral_change) ==
  CodeRaises(H_change) \/ CodeRaises(Charge_change) \/ CodeRaises(Chiral_change)

get_full_template(template, H_change, Charge_change, Chiral_change) ==
  LET H_code == Code(H_change)
      Charge_code == Code(Charge_change)
      Chiral_code == Code(Chiral_change)
  IN IF Chiral_code = ""
       THEN Join(<<template, H_code, Charge_code>>, "_")
       ELSE Join(<<template, H_code, Charge_code, Chiral_code>>, "_")

\* the results of template_extractor.extract_from_reaction, per reaction: a dict
\* of the result fields, or Raised for a call that raises
Edit(bonds, sites) == <<bonds, List(<<>>), List(sites)>>

ExtractorTable == <<
  \* a complete result
  <<"[C:1]O.[N:2]>>[C:1][N:2]",
    [reactants |-> "[C:1]O.[N:2]", products |-> "[C:1][N:2]",
     reaction_smarts |-> "[C:1]>>[C:1]-[N:2]",
     edits |-> << <<"A", Edit(List(<<"1-2">>), <<"s1">>)>> >>,
     H_change |-> <<1, 0>>, Charge_change |-> <<0, 0>>, Chiral_change |-> <<>>]>>,
  \* the same label from other edit sites and another hydrogen map
  <<"[C:1]N.[N:2]>>[C:1][N:2]",
    [reactants |-> "[C:1]N.[N:2]", products |-> "[C:1][N:2]",
     reaction_smarts |-> "[C:1]>>[C:1]-[N:2]",
     edits |-> << <<"A", Edit(List(<<"1-2">>), <<"s2">>)>>, <<"B", Edit(List(<<"1-3">>), <<"s3">>)>> >>,
     H_change |-> <<10>>, Charge_change |-> <<0, 0>>, Chiral_change |-> <<>>]>>,
  \* another template, with a chirality change
  <<"[C:1]O>>[C@:1]N",
    [reactants |-> "[C:1]O", products |-> "[C@:1]N",
     reaction_smarts |-> "[C:1]-[O]>>[C:1]-[N]",
     edits |-> << <<"B", Edit(List(<<"1-2">>), <<"s1">>)>>, <<"C", Edit(List(<<>>), <<>>)>> >>,
     H_change |-> <<-1>>, Charge_change |-> <<0>>, Chiral_change |-> <<1>>]>>,
  \* the extractor raises
  <<"X>>X", Raised>>,
  \* a result without the template fields
  <<"O>>O", [products |-> "O"]>>,
  \* a hydrogen map whose keys are not 1..n
  <<"[C:1]>>[C:1]O",
    [reactants |-> "[C:1]", products |-> "[C:1]O",
     reaction_smarts |-> "[C:1]>>[C:1]-[O]",
     edits |-> << <<"A", Edit(List(<<"1-2">>), <<"s1">>)>> >>,
     H_change |-> (2 :> 1), Charge_change |-> <<0>>, Chiral_change |-> <<>>]>>,
  \* an edit entry without a bond list
  <<"[C:1]>>[C:1]N",
    [reactants |-> "[C:1]", products |-> "[C:1]N",
     reaction_smarts |-> "[C:1]>>[C:1]-[N]",
     edits |-> << <<"A", Edit(List(<<"1-2">>), <<"s1">>)>>, <<"R", Edit(None, <<"s4">>)>> >>,
     H_change |-> <<0>>, Charge_change |-> <<0>>, Chiral_change |-> <<>>]>>,
  \* the first label again, from a result whose edit entry is an empty tuple
  <<"[C:1]C.[N:2]>>[C:1][N:2]",
    [reactants |-> "[C:1]C.[N:2]", products |-> "[C:1][N:2]",
     reaction_smarts |-> "[C:1]>>[C:1]-[N:2]",
     edits |-> << <<"A", <<>>>> >>,
     H_change |-> <<1, 0>>, Charge_change |-> <<0, 0>>, Chiral_change |-> <<>>]>>
>>

\* extract_from_reaction(x, setting) of the extractor build_template_extractor returns
extract_from_reaction(x) ==
  LET hit == SelectSeq(ExtractorTable,
               LAMBDA e : e[1] = x.reactants \o ">>" \o x.products)
  IN IF hit = <<>> THEN Raised ELSE hit[1][2]

\* get_reaction_template(extractor, rxn, _id): the result, Raised when
\* rxn.split('>>')[1] or the extractor raises
get_reaction_template(reaction) ==
  LET parts == Split(reaction, ">>")
  IN IF Len(parts) < 2 THEN Raised
     ELSE extract_from_reaction([reactants |-> parts[1], products |-> parts[2]])

Reactions == {ExtractorTable[k][1] : k \in 1..Len(ExtractorTable)}

\* what get_reaction_template returns for each reaction of the model
ResultOf == [reaction \in Reactions |-> get_reaction_template(reaction)]

ArgsHas(key) == Has(args, key)
Arg(key) == Get(args, key)

\* Chiral_change of lines 72-75
ChiralOf(result) == IF Arg("use_stereo") THEN result.Chiral_change ELSE <<>>

\* lines 66-76 on the extractor's result: whether one of the statements raises
LabelRaises(result) ==
  \/ result = Raised
  \/ "reactants" \notin DOMAIN result
  \/ "reaction_smarts" \notin DOMAIN result
  \/ "edits" \notin DOMAIN result
  \/ "H_change" \notin DOMAIN result
  \/ "Charge_change" \notin DOMAIN result
  \/ ~ArgsHas("use_stereo")
  \/ (Arg("use_stereo") /\ "Chiral_change" \notin DOMAIN result)
  \/ get_full_templateRaises(result.reaction_smarts, result.H_change,
                             result.Charge_change, ChiralOf(result))

\* template_H of line 76
LabelOf(result) ==
  get_full_template(result.reaction_smarts, result.H_change,
                    result.Charge_change, ChiralOf(result))

\* {edit_type: edits[edit_type][2] for edit_type in edits}
EditSitesRaises(edits) == \E k \in 1..Len(edits) : Len(edits[k][2]) < 3
EditSites(edits) == [k \in 1..Len(edits) |-> <<edits[k][1], edits[k][2][3]>>]

\* the loops over edits.items() (lines 86-102) from entry k on: the counters
\* reached, and whether an entry raised
RECURSIVE CountEdits(_, _, _, _, _)
CountEdits(edits, k, label, A, B) ==
  IF k > Len(edits) THEN [A |-> A, B |-> B, raised |-> FALSE]
  ELSE LET edit_type == edits[k][1]
           entry == edits[k][2]
       IN IF Len(entry) = 0 \/ entry[1] = None
            THEN [A |-> A, B |-> B, raised |-> TRUE]
          ELSE IF Len(entry[1].items) = 0 THEN CountEdits(edits, k + 1, label, A, B)
          ELSE IF Arg("retro")
            THEN IF edit_type \in {"A", "R"}
                   THEN CountEdits(edits, k + 1, label, Increment(A, label), B)
                   ELSE CountEdits(edits, k + 1, label, A, Increment(B, label))
            ELSE IF edit_type # "A"
                   THEN CountEdits(edits, k + 1, label, Increment(A, label \o "_" \o edit_type), B)
                   ELSE CountEdits(edits, k + 1, label, A, Increment(B, label \o "_" \o edit_type))

\* re-registered at every sighting
IsFirstMutant(registry, label) == TRUE

\* template_H not in TemplateHs.keys() (line 77)
IsFirst(registry, label) == ~Has(registry, label)

\* one pass of the for loop (lines 63-114), the record's try/except included
Iterate ==
  /\ pc = "loop"
  /\ i < Len(rxns)
  /\ LET result == ResultOf[rxns[i + 1]]
     IN IF LabelRaises(result)
          THEN /\ template_labels' = Append(template_labels, NaN)
               /\ UNCHANGED <<TemplateEdits, TemplateHs, TemplateCs, TemplateSs,
                              TemplateFreq, templates_A, templates_B>>
          ELSE LET template_H == LabelOf(result)
                   edits == result.edits
                   first == IsFirst(TemplateHs, template_H)
               IN IF first /\ EditSitesRaises(edits)
                    THEN /\ template_labels' = Append(template_labels, NaN)
                         /\ UNCHANGED <<TemplateEdits, TemplateHs, TemplateCs, TemplateSs,
                                        TemplateFreq, templates_A, templates_B>>
                    ELSE LET counted ==
                               IF ArgsHas("retro")
                                 THEN CountEdits(edits, 1, template_H, templates_A, templates_B)
                                 ELSE [A |-> templates_A, B |-> templates_B, raised |-> TRUE]
                         IN /\ TemplateEdits' = IF first THEN Put(TemplateEdits, template_H, EditSites(edits))
                                                ELSE TemplateEdits
                            /\ TemplateHs' = IF first THEN Put(TemplateHs, template_H, result.H_change)
                                             ELSE TemplateHs
                            /\ TemplateCs' = IF first THEN Put(TemplateCs, template_H, result.Charge_change)
                                             ELSE TemplateCs
                            /\ TemplateSs' = IF first THEN Put(TemplateSs, template_H, ChiralOf(result))
                                             ELSE TemplateSs
                            /\ TemplateFreq' = Increment(TemplateFreq, template_H)
                            /\ templates_A' = counted.A
                            /\ templates_B' = counted.B
                            /\ template_labels' =
                                 IF counted.raised
                                   THEN Append(Append(template_labels, template_H), NaN)
                                   ELSE Append(template_labels, template_H)
  /\ i' = i + 1
  /\ UNCHANGED <<rxns, args, setting, pc, template_infos, cleanVars, fnVars>>

\* the assignments of the try block (lines 65-102) for a record with this
\* result, in the order they run: lines 78, 79, 80, 81 (1 to 4), line 82 (5),
\* line 84 (6), then one pass of the loop over edits.items() per entry
TrySteps(result) == IF LabelRaises(result) THEN 0 ELSE 6 + Len(result.edits)

\* the try block of the next record runs its first n assignments and none raises
Reached(n) ==
  LET result == ResultOf[rxns[i + 1]]
  IN \/ n = 0
     \/ /\ n >= 1
        /\ ~LabelRaises(result)
        /\ ~(IsFirst(TemplateHs, LabelOf(result)) /\ EditSitesRaises(result.edits))
        /\ n >= 7 =>
             /\ ArgsHas("retro")
             /\ n - 6 <= Len(result.edits)
             /\ ~CountEdits(SubSeq(result.edits, 1, n - 6), 1, LabelOf(result),
                            templates_A, templates_B).raised

\* the locals of extract_templates after the first n assignments of the try
\* block of the next record
TryPrefix(n) ==
  LET result == ResultOf[rxns[i + 1]]
      template_H == IF n = 0 THEN NaN ELSE LabelOf(result)
      first == n >= 1 /\ IsFirst(TemplateHs, template_H)
      counted == IF n >= 7
                   THEN CountEdits(SubSeq(result.edits, 1, n - 6), 1, template_H,
                                   templates_A, templates_B)
                   ELSE [A |-> templates_A, B |-> templates_B, raised |-> FALSE]
  IN [TemplateEdits |-> IF first /\ n >= 1 THEN Put(TemplateEdits, template_H, EditSites(result.edits))
                        ELSE TemplateEdits,
      TemplateHs |-> IF first /\ n >= 2 THEN Put(TemplateHs, template_H, result.H_change)
                     ELSE TemplateHs,
      TemplateCs |-> IF first /\ n >= 3 THEN Put(TemplateCs, template_H, result.Charge_change)
                     ELSE TemplateCs,
      TemplateSs |-> IF first /\ n >= 4 THEN Put(TemplateSs, template_H, ChiralOf(result))
                     ELSE TemplateSs,
      template_labels |-> IF n >= 5 THEN Append(template_labels, template_H) ELSE template_labels,
      TemplateFreq |-> IF n >= 6 THEN Increment(TemplateFreq, template_H) ELSE TemplateFreq,
      templates_A |-> counted.A,
      templates_B |-> counted.B]

\* the locals become those of a prefix of the try block
SetLocals(prefix) ==
  /\ TemplateEdits' = prefix.TemplateEdits
  /\ TemplateHs' = prefix.TemplateHs
  /\ TemplateCs' = prefix.TemplateCs
  /\ TemplateSs' = prefix.TemplateSs
  /\ template_labels' = prefix.template_labels
  /\ TemplateFreq' = prefix.TemplateFreq
  /\ templates_A' = prefix.templates_A
  /\ templates_B' = prefix.templates_B

\* the try block of the next record raises an Exception after its first n
\* assignments
FailsAfter(n) ==
  LET result == ResultOf[rxns[i + 1]]
  IN /\ Reached(n)
     /\ \/ n = 0 /\ ~Reached(1)
        \/ n = 6 /\ ~ArgsHas("retro")
        \/ n >= 6 /\ ArgsHas("retro") /\ n - 6 < Len(result.edits) /\ ~Reached(n + 1)

\* the interrupt handled like any other exception of the record
InterruptMutant ==
  /\ pc = "loop"
  /\ i < Len(rxns)
  /\ template_labels' = Append(template_labels, NaN)
  /\ i' = i + 1
  /\ UNCHANGED <<rxns, args, setting, pc, TemplateEdits, TemplateHs, TemplateCs, TemplateSs,
                 TemplateFreq, templates_A, templates_B, template_infos, cleanVars, fnVars>>

\* KeyboardInterrupt anywhere in the try block of a record (lines 65-102), the
\* assignments before it done: control is in the handler of line 104
Interrupt ==
  /\ pc = "loop"
  /\ i < Len(rxns)
  /\ \E n \in 0..TrySteps(ResultOf[rxns[i + 1]]) :
       /\ Reached(n)
       /\ SetLocals(TryPrefix(n))
  /\ pc' = "handler"
  /\ UNCHANGED <<rxns, args, setting, i, template_infos, cleanVars, fnVars>>

\* the handler runs to its end: print, sys.exit(0), whose SystemExit is caught,
\* and os._exit(0) (lines 105-109)
Exit ==
  /\ pc = "handler"
  /\ pc' = "exited"
  /\ UNCHANGED <<rxns, args, setting, i, TemplateEdits, TemplateHs, TemplateCs, TemplateSs,
                 TemplateFreq, templates_A, templates_B, template_labels,
                 template_infos, cleanVars, fnVars>>

\* KeyboardInterrupt outside the try block: at the loop header or after the
\* loop (lines 63, 113-118), in the handler of a record's exception before it
\* appends "NaN" (lines 110-111), or in the handler of an earlier
\* KeyboardInterrupt before os._exit (lines 105-109); no handler catches it and
\* it reaches the caller
InterruptOutside ==
  /\ \/ /\ pc = "loop"
        /\ UNCHANGED <<TemplateEdits, TemplateHs, TemplateCs, TemplateSs, TemplateFreq,
                       templates_A, templates_B, template_labels>>
     \/ /\ pc = "loop"
        /\ i < Len(rxns)
        /\ \E n \in 0..TrySteps(ResultOf[rxns[i + 1]]) :
             /\ FailsAfter(n)
             /\ SetLocals(TryPrefix(n))
     \/ /\ pc = "handler"
        /\ UNCHANGED <<TemplateEdits, TemplateHs, TemplateCs, TemplateSs, TemplateFreq,
                       templates_A, templates_B, template_labels>>
  /\ pc' = "KeyboardInterrupt"
  /\ UNCHANGED <<rxns, args, setting, i, template_infos, cleanVars, fnVars>>

\* the registry table and the return (lines 116-120)
Return ==
  /\ pc = "loop"
  /\ i = Len(rxns)
  /\ template_infos' =
       [k \in 1..Len(TemplateHs) |->
          LET key == TemplateHs[k][1]
          IN [Template |-> key, edit_site |-> Get(TemplateEdits, key),
              change_H |-> Get(TemplateHs, key), change_C |-> Get(TemplateCs, key),
              change_S |-> Get(TemplateSs, key), Frequency |-> Get(TemplateFreq, key)]]
  /\ pc' = "done"
  /\ UNCHANGED <<rxns, args, setting, i, TemplateEdits, TemplateHs, TemplateCs, TemplateSs,
                 TemplateFreq, templates_A, templates_B, template_labels,
                 cleanVars, fnVars>>

\* df['template'] = template_labels in extract_localtemplates: pandas raises
\* ValueError when the lengths differ
AssignColumn ==
  /\ pc = "done"
  /\ pc' = IF Len(template_labels) = Len(rxns) THEN "saved" ELSE "ValueError"
  /\ UNCHANGED <<rxns, args, setting, i, TemplateEdits, TemplateHs, TemplateCs, TemplateSs,
                 TemplateFreq, templates_A, templates_B, template_labels,
                 template_infos, cleanVars, fnVars>>

ExtractNext == Iterate \/ Interrupt \/ Exit \/ InterruptOutside \/ Return \/ AssignColumn

MaxRecords == 3

ArgsSets == {
  << <<"retro", TRUE>>, <<"use_stereo", TRUE>> >>,
  << <<"retro", FALSE>>, <<"use_stereo", FALSE>> >>,
  << <<"retro", TRUE>>, <<"use_stereo", FALSE>> >>,
  << <<"use_stereo", FALSE>> >>,
  << <<"retro", TRUE>> >>
}

ExtractInit ==
  /\ rxns \in UNION { [1..n -> Reactions] : n \in 0..MaxRecords }
  /\ args \in ArgsSets
  /\ setting = <<>>
  /\ i = 0
  /\ TemplateEdits = <<>> /\ TemplateCs = <<>> /\ TemplateHs = <<>> /\ TemplateSs = <<>>
  /\ TemplateFreq = <<>> /\ templates_A = <<>> /\ templates_B = <<>>
  /\ template_labels = <<>>
  /\ pc = "loop"
  /\ template_infos = <<>>
  /\ CleanIdle
  /\ FnIdle

SpecExtract == ExtractInit /\ [][ExtractNext]_vars

-----------------------------------------------------------------------------
(* extract_localtemplates (3_template_extracting.py): the extractor is built *)
(* from args, then extract_templates runs with the same args                 *)

\* setting of line 30
DefaultSetting ==
  [verbose |-> FALSE, use_stereo |-> FALSE, use_symbol |-> FALSE, max_unmap |-> 5,
   retro |-> FALSE, remote |-> TRUE, least_atom_num |-> 2]

\* lines 31-35: the supplied options replace the defaults; retro forces use_symbol
BuiltSetting ==
  LET supplied == [k \in DOMAIN DefaultSetting |->
                     IF ArgsHas(k) THEN Arg(k) ELSE DefaultSetting[k]]
  IN IF Arg("retro") THEN [supplied EXCEPT !.use_symbol = TRUE] ELSE supplied

\* build_template_extractor(args): args['retro'] of line 34 raises KeyError
\* when the option is not supplied
BuildTemplateExtractor ==
  /\ pc = "build"
  /\ IF ArgsHas("retro")
       THEN /\ setting' = BuiltSetting
            /\ pc' = "loop"
       ELSE /\ setting' = setting
            /\ pc' = "KeyError"
  /\ UNCHANGED <<rxns, args, i, TemplateEdits, TemplateHs, TemplateCs, TemplateSs,
                 TemplateFreq, templates_A, templates_B, template_labels,
                 template_infos, cleanVars, fnVars>>

LocalNext ==
  \/ BuildTemplateExtractor \/ Iterate \/ Interrupt \/ Exit \/ InterruptOutside
  \/ Return \/ AssignColumn

\* the options a caller may supply: any subset of the seven
LocalArgsSets == {
  <<>>,
  << <<"retro", TRUE>> >>,
  << <<"retro", FALSE>> >>,
  << <<"use_stereo", TRUE>> >>,
  << <<"retro", TRUE>>, <<"use_stereo", TRUE>> >>,
  << <<"retro", FALSE>>, <<"use_stereo", FALSE>>, <<"max_unmap", 3>> >>,
  << <<"verbose", TRUE>>, <<"retro", FALSE>>, <<"use_stereo", TRUE>>,
     <<"remote", FALSE>>, <<"least_atom_num", 1>> >>,
  << <<"verbose", FALSE>>, <<"use_stereo", FALSE>>, <<"use_symbol", TRUE>>,
     <<"max_unmap", 5>>, <<"retro", TRUE>>, <<"remote", TRUE>>, <<"least_atom_num", 2>> >>
}

LocalInit ==
  /\ rxns \in UNION { [1..n -> Reactions] : n \in 0..MaxRecords }
  /\ args \in LocalArgsSets
  /\ setting = <<>>
  /\ i = 0
  /\ TemplateEdits = <<>> /\ TemplateCs = <<>> /\ TemplateHs = <<>> /\ TemplateSs = <<>>
  /\ TemplateFreq = <<>> /\ templates_A = <<>> /\ templates_B = <<>>
  /\ template_labels = <<>>
  /\ pc = "build"
  /\ template_infos = <<>>
  /\ CleanIdle
  /\ FnIdle

SpecLocal == LocalInit /\ [][LocalNext]_vars

-----------------------------------------------------------------------------
(* The row functions on their own: fn_in is the argument, fn_out the        *)
(* results of the calls made so far, each call on the previous result       *)

MaxFnReactants == 2
MaxFnProducts == 2

FnReactantCompounds == {"[C:1]O", "O[N:2]", "[N:3][C:1]", "X"}
FnProductCompounds == {"[C:1]N", "[C:1]CCCCC", "[N:2]CCCC", "[C@:1]CCCCCN", "X", ""}

\* merged-form reactions "r1.r2>>p1.p2"
FnInputs ==
  { Join(rs, ".") \o ">>" \o Join(ps, ".") :
      rs \in UNION { [1..n -> FnReactantCompounds] : n \in 0..MaxFnReactants },
      ps \in UNION { [1..n -> FnProductCompounds] : n \in 1..MaxFnProducts } }

\* merged-form reactions with stereo markers on either side
StereoInputs ==
  { r \o ">>" \o p :
      r \in {"", "[C:1]O", "[C@:1]O", "O[N:2].[C@:1]O"},
      p \in {"[C:1]N", "[C@:1]N", "N[C@:1]", "[N@:2][C@:1]O", "[C@:1]X"} }

FnArg == IF fn_out = <<>> THEN fn_in ELSE fn_out[Len(fn_out)]

CallRemoveReagents ==
  /\ fn_name \in {"", "remove_reagents"}
  /\ Len(fn_out) < 2
  /\ ~remove_reagentsRaises(FnArg)
  /\ fn_out' = Append(fn_out, remove_reagents(FnArg))
  /\ fn_name' = "remove_reagents"
  /\ UNCHANGED <<fn_in, cleanVars, extractVars>>

CallMultiproductFixer ==
  /\ fn_name = ""
  /\ ~multiproduct_fixerRaises(FnArg)
  /\ fn_out' = Append(fn_out, multiproduct_fixer(FnArg))
  /\ fn_name' = "multiproduct_fixer"
  /\ UNCHANGED <<fn_in, cleanVars, extractVars>>

CallRemoveStereoalchemy ==
  /\ fn_name = ""
  /\ ~remove_stereoalchemyRaises(FnArg)
  /\ fn_out' = Append(fn_out, remove_stereoalchemy(FnArg))
  /\ fn_name' = "remove_stereoalchemy"
  /\ UNCHANGED <<fn_in, cleanVars, extractVars>>

FnNext == CallRemoveReagents \/ CallMultiproductFixer \/ CallRemoveStereoalchemy

FnInit ==
  /\ fn_in \in FnInputs \cup StereoInputs
  /\ fn_out = <<>>
  /\ fn_name = ""
  /\ CleanIdle
  /\ ExtractIdle

SpecFn == FnInit /\ [][FnNext]_vars

-----------------------------------------------------------------------------
(* Properties of clean_dataset (SpecClean) *)

ReactantSegment(rxn) == Split(rxn, ">>")[1]
ProductSegment(rxn) == Split(rxn, ">>")[2]

\* the number of compounds a segment holds: an empty segment holds none
CompoundCount(segment) == Len(RoleCompounds(segment))

\* the mapping indices carried by the atoms of a segment
SegmentMaps(segment) ==
  LET cs == RoleCompounds(segment)
  IN UNION { { MolFromSmiles(cs[k]).atoms[a].map : a \in 1..Len(MolFromSmiles(cs[k]).atoms) }
             : k \in 1..Len(cs) } \ {""}

AfterReactantCount ==
  stage \in {"multiproduct_fixer", "no_carbon", "remove_stereoalchemy",
             "product_in_reactants", "canonicalise", "remove_mapping",
             "size_filter", "drop_duplicates", "to_csv", "saved"}

\* C5 (as claimed): once reactant_count_filter has run, every row of the table,
\* and so every surviving record, has between 1 and 4 reactant compounds; a
\* reaction whose reactant segment holds no compound has been rejected.
C5_ReactantCountWithinBound ==
  AfterReactantCount =>
    \A k \in 1..Len(df) :
      LET n == CompoundCount(ReactantSegment(df[k].rxn_map))
      IN 1 <= n /\ n <= MaxReactantCount

\* C6 (as claimed): every surviving record has exactly one product compound and
\* no reactant atom whose mapping index is absent from the product's indices.
C6_OneProductNoUnusedMaps ==
  stage = "saved" =>
    \A k \in 1..Len(df) :
      /\ CompoundCount(ProductSegment(df[k].rxn_map)) = 1
      /\ SegmentMaps(ReactantSegment(df[k].rxn_map))
           \subseteq SegmentMaps(ProductSegment(df[k].rxn_map))

\* C7 (as claimed): in every surviving record the product string of the stored
\* reaction, mapped (rxn_map) and unmapped (canonic_rxn), equals none of its
\* reactant compound strings.
C7_ProductNotAReactant ==
  stage = "saved" =>
    \A k \in 1..Len(df) :
      /\ ~InList(ProductSegment(df[k].rxn_map),
                 Split(ReactantSegment(df[k].rxn_map), "."))
      /\ ~InList(ProductSegment(df[k].canonic_rxn),
                 Split(ReactantSegment(df[k].canonic_rxn), "."))

\* C8: every record that is past the length filter, and so every surviving
\* record, has a canonic_rxn with exactly one ">>" separator, without any
\* atom-mapping annotation, and of at most 512 characters.
C8_CanonicRxnWellFormed ==
  stage \in {"drop_duplicates", "to_csv", "saved"} =>
    \A k \in 1..Len(df) :
      /\ Len(Split(df[k].canonic_rxn, ">>")) = 2
      /\ CountChar(df[k].canonic_rxn, ">") = 2
      /\ ~Contains(df[k].canonic_rxn, ":")
      /\ FindMaps(df[k].canonic_rxn) = {}
      /\ Len(df[k].canonic_rxn) <= MaxCanonicLen

\* a record of exactly 512 characters, mapped before remove_mapping, is saved
C8_Witness ==
  /\ stage = "saved"
  /\ \E k \in 1..Len(df) :
       /\ Len(df[k].canonic_rxn) = MaxCanonicLen
       /\ FindMaps(df[k].rxn_map) # {}

-----------------------------------------------------------------------------
(* Properties of extract_templates (SpecExtract) *)

Finished == pc \in {"done", "saved", "ValueError"}

\* an interrupt has stopped the scan, possibly in the middle of a record: its
\* handler runs, the process has exited, or KeyboardInterrupt has left the function
Interrupted == pc \in {"handler", "exited", "KeyboardInterrupt"}

Result(k) == ResultOf[rxns[k]]

\* record k reaches line 76 with label
HasLabel(k, label) == ~LabelRaises(Result(k)) /\ LabelOf(Result(k)) = label

RECURSIVE SumFrequency(_)
SumFrequency(rows) ==
  IF rows = <<>> THEN 0 ELSE Head(rows).Frequency + SumFrequency(Tail(rows))

NonNaNCount(labels) == Len(SelectSeq(labels, LAMBDA l : l # NaN))

\* C1 (as claimed): the label sequence extract_templates returns has one label
\* per input record, in input order: as long as the input, its k-th entry the
\* label of record k or the "NaN" of its failure.
C1_OneLabelPerRecord ==
  Finished =>
    /\ Len(template_labels) = Len(rxns)
    /\ \A k \in 1..Len(template_labels) :
         template_labels[k] = NaN \/ HasLabel(k, template_labels[k])

\* C2: once extract_templates has finished, the Frequency column of the registry
\* table sums to the number of labels that are not "NaN".
C2_FrequencySum ==
  Finished => SumFrequency(template_infos) = NonNaNCount(template_labels)

\* a finished scan with a failed record and a label seen more than once
C2_Witness ==
  /\ pc = "done"
  /\ InList(NaN, template_labels)
  /\ \E k \in 1..Len(template_infos) : template_infos[k].Frequency >= 2

\* C3 (as claimed): a pass of the loop that gives its record the "NaN" label
\* leaves the registry as it was: no entry created, no Frequency incremented.
C3_NaNLeavesRegistry ==
  [][(/\ i' = i + 1
      /\ template_labels'[Len(template_labels')] = NaN)
       => UNCHANGED <<TemplateEdits, TemplateHs, TemplateCs, TemplateSs, TemplateFreq>>]_vars

\* the records among the first i that can create the entry of label: they reach
\* line 78 and their edit sites can be read
Creators(label) ==
  {k \in 1..i : HasLabel(k, label) /\ ~EditSitesRaises(Result(k).edits)}

FirstCreator(label) ==
  CHOOSE k \in Creators(label) : \A j \in Creators(label) : k <= j

\* C4: between two records and after the scan, every label of the registry
\* holds the edit sites and the three change maps of the first record extracted
\* with that label, whatever the later records with the label carry, and its
\* Frequency counts that record and the later records with the label.
C4_FirstOccurrenceWins ==
  Interrupted \/
  LET result == [k \in 1..i |-> Result(k)]
      labelled == [k \in 1..i |-> ~LabelRaises(result[k])]
      labelOf == [k \in 1..i |-> IF labelled[k] THEN LabelOf(result[k]) ELSE NaN]
      creates == [k \in 1..i |-> labelled[k] /\ ~EditSitesRaises(result[k].edits)]
  IN \A n \in 1..Len(TemplateHs) :
       LET label == TemplateHs[n][1]
           creators == {k \in 1..i : creates[k] /\ labelOf[k] = label}
       IN /\ creators # {}
          /\ LET f == CHOOSE k \in creators : \A j \in creators : k <= j
                 first == result[f]
             IN /\ Get(TemplateEdits, label) = EditSites(first.edits)
                /\ Get(TemplateHs, label) = first.H_change
                /\ Get(TemplateCs, label) = first.Charge_change
                /\ Get(TemplateSs, label) = ChiralOf(first)
                /\ Get(TemplateFreq, label) =
                     Cardinality({k \in f..i : labelled[k] /\ labelOf[k] = label})

\* a later record with the label of an earlier one, and other edit sites and
\* another hydrogen map, has been processed
C4_Witness ==
  ~Interrupted /\ \E n \in 1..Len(TemplateHs) :
    LET label == TemplateHs[n][1]
    IN /\ Get(TemplateFreq, label) >= 2
       /\ \E k \in 1..i :
            /\ HasLabel(k, label)
            /\ k > FirstCreator(label)
            /\ Result(k).H_change # Get(TemplateHs, label)
            /\ EditSites(Result(k).edits) # Get(TemplateEdits, label)

-----------------------------------------------------------------------------
(* Properties of the row functions (SpecFn) *)

\* C9: remove_reagents applied to its own result returns that result: the
\* second application drops no compound and clears no mapping index.
C9_RemoveReagentsIdempotent ==
  (fn_name = "remove_reagents" /\ Len(fn_out) = 2) => fn_out[2] = fn_out[1]

\* two applications, the first of which dropped a compound and cleared an index
\* of a compound it kept
C9_Witness ==
  /\ fn_name = "remove_reagents"
  /\ Len(fn_out) = 2
  /\ LET before == Split(ReactantSegment(fn_in), ".")
         after == Split(ReactantSegment(fn_out[1]), ".")
         product_maps == FindMaps(ProductSegment(fn_in))
     IN /\ ReactantSegment(fn_out[1]) # ""
        /\ Len(after) < Len(before)
        /\ \E k \in 1..Len(before) :
             /\ FindMaps(before[k]) \cap product_maps # {}
             /\ ~(FindMaps(before[k]) \subseteq product_maps)

IsError(res) == Len(res) >= 6 /\ SubSeq(res, 1, 6) = "Error:"

Parses(smiles) == MolFromSmiles(smiles).ok

HeavyAtoms(smiles) == CalcNumHeavyAtoms(MolFromSmiles(smiles).atoms)

\* C10 (as claimed): with several product compounds multiproduct_fixer keeps
\* the compounds of more than 5 heavy atoms and returns the reactant segment
\* joined with the kept compound when exactly one is kept, an "Error:" sentinel
\* when none or several are kept or a product does not parse; with a single
\* product compound it returns its input if the product parses and an "Error:"
\* sentinel if not; so every output that is not an error has exactly one
\* product compound.
C10_MultiproductFixer ==
  fn_name = "multiproduct_fixer" =>
    LET res == fn_out[1]
        products == Split(ProductSegment(fn_in), ".")
        kept == SelectSeq(products, LAMBDA p : HeavyAtoms(p) > MinHeavyAtoms)
    IN /\ IF Len(products) > 1
            THEN IF \A k \in 1..Len(products) : Parses(products[k])
                   THEN IF Len(kept) = 1
                          THEN res = ReactantSegment(fn_in) \o ">>" \o kept[1]
                          ELSE IsError(res)
                   ELSE IsError(res)
            ELSE IF Parses(products[1]) THEN res = fn_in ELSE IsError(res)
       /\ ~IsError(res) => CompoundCount(ProductSegment(res)) = 1

-----------------------------------------------------------------------------
(* Properties of extract_localtemplates (SpecLocal) *)

\* the extractor's result has every field and readable change maps and edits,
\* so that the record fails for no reason of its own
Complete(result) ==
  /\ result # Raised
  /\ {"reactants", "reaction_smarts", "edits", "H_change", "Charge_change",
      "Chiral_change"} \subseteq DOMAIN result
  /\ ~get_full_templateRaises(result.reaction_smarts, result.H_change,
                              result.Charge_change, result.Chiral_change)
  /\ ~EditSitesRaises(result.edits)

\* C11 (as claimed): whatever subset of the options args supplies,
\* build_template_extractor does not raise, the setting it builds holds the
\* supplied value of every supplied option and the default of every other
\* (use_symbol forced by retro), and extract_templates gives a label other
\* than "NaN" to every record that has no failure of its own.
C11_DefaultsApply ==
  /\ pc # "KeyError"
  /\ pc \notin {"build", "KeyError"} =>
       \A k \in DOMAIN DefaultSetting :
         setting[k] = IF k = "use_symbol" /\ Has(args, "retro") /\ Get(args, "retro")
                        THEN TRUE
                      ELSE IF Has(args, k) THEN Get(args, k) ELSE DefaultSetting[k]
  /\ Finished =>
       NonNaNCount(template_labels) >=
         Cardinality({k \in 1..Len(rxns) : Complete(Result(k))})

-----------------------------------------------------------------------------
(* Properties of the error drops of clean_dataset (SpecClean) *)

ErrorDropStages ==
  {"reactant_count_filter", "multiproduct_fixer", "no_carbon",
   "product_in_reactants", "canonicalise", "remove_mapping"}

\* what the function of the stage the table is at returns for a row
StageOutput(row) ==
  IF stage = "remove_mapping" THEN remove_mapping(row.rxn_map)
  ELSE RowFn(stage, row.rxn_map)

\* the column the stage the table is at writes
StageColumn == IF stage = "remove_mapping" THEN "canonic_rxn" ELSE "rxn_map"

\* C12 (as claimed): an error-dropping stage leaves in the table exactly the
\* outputs of its function that are not an "Error:" sentinel: every sentinel
\* is gone before the next stage, and no output that does not begin with
\* "Error" is deleted by the error drop.
C12_ErrorDropExact ==
  [][(stage \in ErrorDropStages /\ stage' # "crashed") =>
       LET col == StageColumn
       IN {df'[k][col] : k \in 1..Len(df')} =
          {StageOutput(df[k]) : k \in {j \in 1..Len(df) : ~IsError(StageOutput(df[j]))}}]_vars

-----------------------------------------------------------------------------
(* Properties of clean_dataset under the worker pool (SpecWorkers) *)

\* the functions the workers apply, in program order
ParallelOrder ==
  SubSeq(StageOrder, StageIndex("untangle_tildes"), StageIndex("size_filter"))

\* the number of parallel stages that are over when clean_dataset is at s
StagesOver(s) ==
  IF StageIndex(s) > StageIndex("size_filter") THEN Len(ParallelOrder)
  ELSE IF s = "segment_count" THEN 0
  ELSE StageIndex(s) - StageIndex("untangle_tildes")

\* every row of the table has been through the stages that are over, in the
\* fixed order, and through the stage under way if its worker has returned:
\* no row is a stage ahead of another one
RowsInStep ==
  stage # "crashed" =>
    \A k \in 1..Len(df) :
      LET id == df[k].dataset_id
      IN applied[id] =
           SubSeq(ParallelOrder, 1,
                  StagesOver(stage) + (IF id \in DOMAIN out THEN 1 ELSE 0))

\* clean_dataset moves from a stage to the next one of the fixed order only,
\* and leaves a parallel stage, and touches the table, only when every row
\* has finished it
StepsInOrder ==
  /\ (stage' # stage /\ stage' # "crashed") => stage' = NextStage(stage)
  /\ (stage \in ParallelStages /\ (df' # df \/ stage' \notin {stage, "crashed"})) =>
       \A k \in 1..Len(df) : Len(applied[df[k].dataset_id]) = StagesOver(stage) + 1

\* C13: each stage is a complete barrier in every interleaving of the workers,
\* and the stages run in the fixed order: no row is processed by the next
\* stage, and no duplicate removal or error drop is performed, before every
\* row has finished the stage under way.
C13_StageBarrier == []RowsInStep /\ [][StepsInOrder]_vars

\* a late stage is under way with the worker of the second row back before
\* the worker of the first row
C13_Witness ==
  /\ stage = "canonicalise"
  /\ Len(df) = 2
  /\ df[2].dataset_id \in DOMAIN out
  /\ df[1].dataset_id \notin DOMAIN out

-----------------------------------------------------------------------------
(* Properties of the labels and of the interrupt (SpecExtract) *)

\* the number of separator-joined fields of a label
FieldCount(label) == Len(Split(label, "_"))

\* C14 (as claimed): every label extract_templates builds has four fields, the
\* chirality code the fourth, when use_stereo is enabled and three fields when
\* it is disabled, whatever the extractor's result.
C14_FieldCountByConfiguration ==
  \A n \in 1..Len(template_labels) :
    template_labels[n] # NaN =>
      FieldCount(template_labels[n]) = IF Arg("use_stereo") THEN 4 ELSE 3

\* the try block of the next record (lines 64-102) raises an Exception
RecordFails ==
  LET result == Result(i + 1)
  IN \/ LabelRaises(result)
     \/ IsFirst(TemplateHs, LabelOf(result)) /\ EditSitesRaises(result.edits)
     \/ ~ArgsHas("retro")
     \/ CountEdits(result.edits, 1, LabelOf(result), templates_A, templates_B).raised

\* C15: a KeyboardInterrupt while a record is processed ends the scan at once:
\* whatever the statement it arrives at, no "NaN" is appended for the
\* interrupted record (at most its own label is already in the list) and the
\* record counter stays; the handler changes nothing and ends in the exit of
\* the process or, interrupted itself, in KeyboardInterrupt leaving the
\* function; no step follows and nothing is returned.  Every other exception of
\* a record leaves "NaN" as the last label and the loop goes on, and "NaN" is
\* appended for no other reason.
C15_InterruptExits ==
  [][/\ pc \notin {"exited", "KeyboardInterrupt"}
     /\ (pc = "loop" /\ Interrupted') =>
          /\ \/ template_labels' = template_labels
             \/ \E label \in {LabelOf(Result(i + 1))} \ {NaN} :
                  template_labels' = Append(template_labels, label)
          /\ i' = i
          /\ template_infos' = <<>>
     /\ pc = "handler" =>
          /\ pc' \in {"exited", "KeyboardInterrupt"}
          /\ UNCHANGED <<i, TemplateEdits, TemplateHs, TemplateCs, TemplateSs, TemplateFreq,
                         templates_A, templates_B, template_labels, template_infos>>
     /\ (pc = "loop" /\ i' = i + 1) =>
          /\ pc' = "loop"
          /\ (template_labels'[Len(template_labels')] = NaN) <=> RecordFails]_vars

\* the process exited on an interrupt that came after line 82 had appended the
\* label of the record, the record before it having failed
C15_Witness ==
  /\ pc = "exited"
  /\ i >= 1 /\ i < Len(rxns)
  /\ Len(template_labels) = i + 1
  /\ template_labels[i] = NaN
  /\ template_labels[i + 1] # NaN

-----------------------------------------------------------------------------
(* Property of remove_stereoalchemy (SpecFn) *)

\* C16: remove_stereoalchemy leaves the reactant segment as it was; the
\* reaction comes back changed only when the product has a stereo marker "@"
\* and the reactant segment has none, and then the product carries no marker
\* any more; in every other case the reaction comes back unchanged.
C16_ProductOnly ==
  fn_name = "remove_stereoalchemy" =>
    LET rxn == fn_in
        res == fn_out[1]
        r == Split(rxn, ">>")[1]
        p == Split(rxn, ">>")[2]
        marked == Contains(p, "@") /\ ~Contains(r, "@")
    IN /\ Split(res, ">>")[1] = r
       /\ res # rxn => marked
       /\ marked => ~Contains(res, "@")
       /\ ~marked => res = rxn

\* a call that rewrote the product of a reaction with reactants
C16_Witness ==
  /\ fn_name = "remove_stereoalchemy"
  /\ fn_out[1] # fn_in
  /\ Split(fn_in, ">>")[1] # ""
  /\ Split(fn_out[1], ">>")[1] = Split(fn_in, ">>")[1]

====
